---------------------------- MODULE Spec2Model ----------------------------
(***************************************************************************)
(* Model of patch.py, the Intel x520 EEPROM patcher.                       *)
(*                                                                         *)
(* The script is a straight-line program: argument -> identity files ->   *)
(* recognition -> ethtool -e -> parse -> bit-0 decision -> ethtool -E ->   *)
(* report.  One action models one of these steps; pc is the position of    *)
(* the interpreter.  A behaviour is a sequence of runs of the script       *)
(* against one card, so that the EEPROM byte persists between runs.        *)
(*                                                                         *)
(* Python strings are modelled as sequences of one-character strings, so   *)
(* that strip/split/slice/"in"/int(.,16)/hex() are computed, not assumed.  *)
(***************************************************************************)
EXTENDS Integers, Sequences, FiniteSets, TLC

(***************************************************************************)
(* Bounds of the model.                                                    *)
(***************************************************************************)
\* number of consecutive runs of the script against the same card
MaxRuns == 2

(***************************************************************************)
(* Characters and string primitives of Python used by the script.          *)
(***************************************************************************)
\* str.strip() / str.split() whitespace
Whitespace == {" ", "\t", "\n", "\r", "\f"}

\* digits in the order hex() renders them
HexDigits == <<"0", "1", "2", "3", "4", "5", "6", "7",
               "8", "9", "a", "b", "c", "d", "e", "f">>

\* value of one digit character for int(., 16); -1 when it is no hex digit
DigitValue(c) ==
    CASE c = "0" -> 0 [] c = "1" -> 1 [] c = "2" -> 2 [] c = "3" -> 3
      [] c = "4" -> 4 [] c = "5" -> 5 [] c = "6" -> 6 [] c = "7" -> 7
      [] c = "8" -> 8 [] c = "9" -> 9
      [] c \in {"a", "A"} -> 10 [] c \in {"b", "B"} -> 11
      [] c \in {"c", "C"} -> 12 [] c \in {"d", "D"} -> 13
      [] c \in {"e", "E"} -> 14 [] c \in {"f", "F"} -> 15
      [] OTHER -> -1

\* s[i:] with i counted from 0, as in Python
SliceFrom(s, i) == SubSeq(s, i + 1, Len(s))

RECURSIVE LStrip(_)
LStrip(s) ==
    IF s # <<>> /\ Head(s) \in Whitespace THEN LStrip(Tail(s)) ELSE s

RECURSIVE RStrip(_)
RStrip(s) ==
    IF s # <<>> /\ s[Len(s)] \in Whitespace
    THEN RStrip(SubSeq(s, 1, Len(s) - 1))
    ELSE s

\* str.strip()
Strip(s) == RStrip(LStrip(s))

\* str.split(sep) for a one-character separator: empty fields are kept
RECURSIVE SplitOn(_, _, _)
SplitOn(s, sep, cur) ==
    IF s = <<>> THEN <<cur>>
    ELSE IF Head(s) = sep THEN <<cur>> \o SplitOn(Tail(s), sep, <<>>)
    ELSE SplitOn(Tail(s), sep, Append(cur, Head(s)))

\* str.split(): fields separated by runs of whitespace, no empty field
RECURSIVE SplitWS(_, _)
SplitWS(s, cur) ==
    IF s = <<>> THEN (IF cur = <<>> THEN <<>> ELSE <<cur>>)
    ELSE IF Head(s) \in Whitespace
         THEN (IF cur = <<>> THEN <<>> ELSE <<cur>>) \o SplitWS(Tail(s), <<>>)
         ELSE SplitWS(Tail(s), Append(cur, Head(s)))

\* ' '.join(parts)
RECURSIVE Join(_)
Join(parts) ==
    IF parts = <<>> THEN <<>>
    ELSE IF Len(parts) = 1 THEN parts[1]
    ELSE parts[1] \o <<" ">> \o Join(Tail(parts))

\* a in b for two strings: a occurs in b as a contiguous substring
IsSubstring(a, b) ==
    \E i \in 0..(Len(b) - Len(a)) : SubSeq(b, i + 1, i + Len(a)) = a

(***************************************************************************)
(* int(val, 16) and hex(n).                                                *)
(***************************************************************************)
\* the digits of a literal: a digit first and last, single underscores between
WellFormedDigits(d) ==
    /\ d # <<>>
    /\ \A i \in 1..Len(d) : d[i] = "_" \/ DigitValue(d[i]) >= 0
    /\ d[1] # "_" /\ d[Len(d)] # "_"
    /\ \A i \in 1..(Len(d) - 1) : ~(d[i] = "_" /\ d[i + 1] = "_")

RECURSIVE DigitsValue(_, _)
DigitsValue(d, acc) ==
    IF d = <<>> THEN acc
    ELSE IF Head(d) = "_" THEN DigitsValue(Tail(d), acc)
    ELSE DigitsValue(Tail(d), 16 * acc + DigitValue(Head(d)))

\* int(tok, 16): optional sign, optional 0x/0X (one underscore may follow it),
\* then the digits; ok = FALSE stands for ValueError
ParseHex(tok) ==
    LET signed   == tok # <<>> /\ tok[1] \in {"+", "-"}
        body     == IF signed THEN Tail(tok) ELSE tok
        prefixed == Len(body) >= 2 /\ body[1] = "0" /\ body[2] \in {"x", "X"}
        rest0    == IF prefixed THEN SliceFrom(body, 2) ELSE body
        rest     == IF prefixed /\ rest0 # <<>> /\ rest0[1] = "_"
                    THEN Tail(rest0) ELSE rest0
        mag      == DigitsValue(rest, 0)
    IN  IF WellFormedDigits(rest)
        THEN [ok |-> TRUE,
              value |-> IF signed /\ tok[1] = "-" THEN 0 - mag ELSE mag]
        ELSE [ok |-> FALSE, value |-> 0]

RECURSIVE HexMagnitude(_)
HexMagnitude(n) ==
    IF n < 16 THEN <<HexDigits[n + 1]>>
    ELSE Append(HexMagnitude(n \div 16), HexDigits[(n % 16) + 1])

\* hex(n)
Hex(n) ==
    IF n < 0 THEN <<"-", "0", "x">> \o HexMagnitude(0 - n)
    ELSE <<"0", "x">> \o HexMagnitude(n)

(***************************************************************************)
(* Python's & and | on integers of either sign (two's complement).         *)
(***************************************************************************)
RECURSIVE BitAnd(_, _)
BitAnd(a, b) ==
    IF a = 0 \/ b = 0 THEN 0
    ELSE IF a = -1 THEN b
    ELSE IF b = -1 THEN a
    ELSE (a % 2) * (b % 2) + 2 * BitAnd(a \div 2, b \div 2)

RECURSIVE BitOr(_, _)
BitOr(a, b) ==
    IF a = -1 \/ b = -1 THEN -1
    ELSE IF a = 0 THEN b
    ELSE IF b = 0 THEN a
    ELSE (IF a % 2 = 1 \/ b % 2 = 1 THEN 1 ELSE 0)
         + 2 * BitOr(a \div 2, b \div 2)

(***************************************************************************)
(* String literals of the script.                                          *)
(***************************************************************************)
S_0x8086 == <<"0", "x", "8", "0", "8", "6">>
S_0x10fb == <<"0", "x", "1", "0", "f", "b">>
S_0x154d == <<"0", "x", "1", "5", "4", "d">>
S_0x58   == <<"0", "x", "5", "8">>
S_ethtool == <<"e", "t", "h", "t", "o", "o", "l">>
S_magic  == <<"m", "a", "g", "i", "c">>
S_offset == <<"o", "f", "f", "s", "e", "t">>
S_value  == <<"v", "a", "l", "u", "e">>
S_length == <<"l", "e", "n", "g", "t", "h">>
S_1      == <<"1">>
S_read   == <<"-", "e">>
S_write  == <<"-", "E">>

(***************************************************************************)
(* The host: interface name, sysfs attribute files, ethtool output.        *)
(***************************************************************************)
\* sys.argv[1] when it is given
InterfaceNames == {<<"e", "t", "h", "4">>}

\* contents of /sys/class/net/<intf>/device/vendor
VendorFiles ==
    { <<"0", "x", "8", "0", "8", "6", "\n">>,
      <<"0", "x", "8", "0", "\n">>,
      <<"8", "0", "8", "6", "\n">>,
      <<"0", "X", "8", "0", "8", "6", "\n">>,
      <<"0", "x", "8", "0", "8", "7", "\n">>,
      <<"\n">> }

\* contents of /sys/class/net/<intf>/device/device
DeviceFiles ==
    { <<"0", "x", "1", "0", "f", "b", "\n">>,
      <<"0", "x", "1", "5", "4", "d", "\n">>,
      <<"0", "x", "1", "0", "c", "6", "\n">>,
      <<"0", "x", "1", "0", "F", "B", "\n">>,
      <<"\n">> }

Byte == 0..255

\* what "ethtool -e <intf> offset 0x58 length 1" prints around the byte token
DumpWith(tok) ==
    <<"O", "f", "f", "s", "e", "t", "\t", "\t", "V", "a", "l", "u", "e", "s", "\n">>
    \o <<"-", "-", "-", "-", "-", "-", "\t", "\t", "-", "-", "-", "-", "-", "-", "\n">>
    \o <<"0", "x", "0", "0", "5", "8", ":", "\t", "\t">>
    \o tok \o <<" ", "\n">>

\* the output for EEPROM byte b: the byte as two lowercase hex digits
EthtoolDump(b) ==
    DumpWith(<<HexDigits[(b \div 16) + 1], HexDigits[(b % 16) + 1]>>)

\* outputs of an accessor that does not keep to the two-hex-digit format:
\* nothing at all, a blank last line, and last tokens that are no byte
OtherOutputs ==
    { <<>>,
      DumpWith(<<>>) \o <<"\n">>,
      DumpWith(<<"1", "0", "0">>),
      DumpWith(<<"1", "0", "1">>),
      DumpWith(<<"z", "z">>) }

(***************************************************************************)
(* Pure pieces of the script.                                              *)
(***************************************************************************)
\* line 45, negated: vdr_id in ('0x8086') and dev_id in ('0x10fb', '0x154d').
\* ('0x8086') is a parenthesised string, so the first "in" is a substring
\* test; the second is membership in a tuple.
Recognized(vdr, dev) ==
    IsSubstring(vdr, S_0x8086) /\ dev \in {S_0x10fb, S_0x154d}

\* line 52: output.strip().split('\n')[-1].split()[-1]; ok = FALSE stands for
\* the IndexError of [-1] on an empty list
LastToken(out) ==
    LET lines  == SplitOn(Strip(out), "\n", <<>>)
        fields == SplitWS(lines[Len(lines)], <<>>)
    IN  IF fields = <<>> THEN [ok |-> FALSE, tok |-> <<>>]
        ELSE [ok |-> TRUE, tok |-> fields[Len(fields)]]

\* line 56: val_bin & 0b00000001 == 1
IsUnlocked(v) == BitAnd(v, 1) = 1

\* line 59: val_bin & 0b00000001 == 0
IsLocked(v) == BitAnd(v, 1) = 0

PatchValue_wrongBit(v) == BitOr(v, 2)
PatchValue_noOr(v) == v
\* line 61: new_val = val_bin | 0b00000001
PatchValue(v) == BitOr(v, 1)

MagicToken_keepPrefix(dev, vdr) == dev \o vdr
\* line 64: "%s%s" % (dev_id, vdr_id[2:])
MagicToken(dev, vdr) == dev \o SliceFrom(vdr, 2)

\* line 50: the argument list of the read-mode invocation
ReadCommand(i) ==
    <<S_ethtool, S_read, i, S_offset, S_0x58, S_length, S_1>>

\* lines 65-67: the write-mode command line, ' '.join(map(str, cmd))
WriteCommand(i, m, nv) ==
    Join(<<S_ethtool, S_write, i, S_magic, m, S_offset, S_0x58,
           S_value, Hex(nv), S_length, S_1>>)

\* line 68: os.system hands the line to the shell, which splits it into words
ShellWords(line) == SplitWS(line, <<>>)

Succ_retry(p) ==
    CASE p = "argv" -> "identity" [] p = "identity" -> "recognize"
      [] p = "recognize" -> "read" [] p = "read" -> "parse"
      [] p = "parse" -> "decide" [] p = "decide" -> "write"
      [] p = "write" -> "read" [] p = "report" -> "done"
Succ_checkLate(p) ==
    CASE p = "argv" -> "identity" [] p = "identity" -> "read"
      [] p = "read" -> "parse" [] p = "parse" -> "decide"
      [] p = "decide" -> "write" [] p = "write" -> "recognize"
      [] p = "recognize" -> "report" [] p = "report" -> "done"
\* the order of the statements of the script, when none of them exits
Succ(p) ==
    CASE p = "argv" -> "identity" [] p = "identity" -> "recognize"
      [] p = "recognize" -> "read" [] p = "read" -> "parse"
      [] p = "parse" -> "decide" [] p = "decide" -> "write"
      [] p = "write" -> "report" [] p = "report" -> "done"

(***************************************************************************)
(* State.                                                                  *)
(***************************************************************************)
VARIABLES
    conforming,  \* host: the installed accessor keeps to the dump format
    vendorFile,  \* host: contents of the vendor attribute file
    deviceFile,  \* host: contents of the device attribute file
    eeprom,      \* card: the byte at offset 0x58
    pc,          \* position in the script; "done" once the process has exited
    intf, vdr_id, dev_id, output, val, val_bin, new_val, magic, cmd,
                 \* the script's variables (<<>> or 0 while unassigned)
    sysStatus,   \* what os.system returned (the script drops it)
    exitStatus,  \* exit status of the process, meaningful when pc = "done"
    outcome,     \* which statement ended the run
    calls,       \* argument lists of the accessor invocations of this run
    eeprom0,     \* the EEPROM byte when this run started
    wrote,       \* number of times this run changed the EEPROM byte
    mutations,   \* number of times the EEPROM byte changed, over all runs
    run          \* index of the current run

vars == <<conforming, vendorFile, deviceFile, eeprom, pc, intf, vdr_id, dev_id,
          output, val, val_bin, new_val, magic, cmd, sysStatus, exitStatus,
          outcome, calls, eeprom0, wrote, mutations, run>>

host == <<conforming, vendorFile, deviceFile>>
history == <<eeprom0, mutations, run>>

\* the process ends at statement `how` with status `status`
Exit(how, status) ==
    /\ pc' = "done"
    /\ outcome' = how
    /\ exitStatus' = status

Continue ==
    /\ pc' = Succ(pc)
    /\ UNCHANGED <<outcome, exitStatus>>

Init ==
    /\ conforming \in BOOLEAN
    /\ vendorFile \in VendorFiles
    /\ deviceFile \in DeviceFiles
    /\ eeprom \in Byte
    /\ pc = "argv"
    /\ intf = <<>> /\ vdr_id = <<>> /\ dev_id = <<>>
    /\ output = <<>> /\ val = <<>> /\ val_bin = 0 /\ new_val = 0
    /\ magic = <<>> /\ cmd = <<>>
    /\ sysStatus = 0 /\ exitStatus = 0 /\ outcome = "running"
    /\ calls = <<>>
    /\ eeprom0 = eeprom /\ wrote = 0 /\ mutations = 0 /\ run = 1

(***************************************************************************)
(* The steps of the script.                                                *)
(***************************************************************************)
\* lines 29-33: intf = sys.argv[1], or usage and exit 255
ParseArgs ==
    /\ pc = "argv"
    /\ \E given \in BOOLEAN :
         IF given
         THEN /\ \E i \in InterfaceNames : intf' = i
              /\ Continue
         ELSE /\ Exit("usage", 255)
              /\ UNCHANGED intf
    /\ UNCHANGED <<host, eeprom, vdr_id, dev_id, output, val, val_bin, new_val,
                   magic, cmd, sysStatus, calls, wrote, history>>

\* lines 35-43: read and strip both attribute files, or exit 2 on IOError
ReadIdentity ==
    /\ pc = "identity"
    /\ \E readable \in BOOLEAN :
         IF readable
         THEN /\ vdr_id' = Strip(vendorFile)
              /\ dev_id' = Strip(deviceFile)
              /\ Continue
         ELSE /\ Exit("ioerror", 2)
              /\ UNCHANGED <<vdr_id, dev_id>>
    /\ UNCHANGED <<host, eeprom, intf, output, val, val_bin, new_val,
                   magic, cmd, sysStatus, calls, wrote, history>>

\* lines 45-47: exit 3 unless the identity is recognized
Recognize ==
    /\ pc = "recognize"
    /\ IF ~Recognized(vdr_id, dev_id)
       THEN Exit("unrecognized", 3)
       ELSE Continue
    /\ UNCHANGED <<host, eeprom, intf, vdr_id, dev_id, output, val, val_bin,
                   new_val, magic, cmd, sysStatus, calls, wrote, history>>

\* what the read-mode invocation can print when it exits with status 0
ReadOutputs ==
    {EthtoolDump(eeprom)} \cup (IF conforming THEN {} ELSE OtherOutputs)

\* line 50: subprocess.check_output([...]).decode('utf-8').  A missing command
\* (FileNotFoundError) or a non-zero exit (CalledProcessError) is not caught:
\* the interpreter prints the traceback and exits with status 1.
ReadEeprom ==
    /\ pc = "read"
    /\ calls' = Append(calls, ReadCommand(intf))
    /\ \E ran \in BOOLEAN :
         IF ran
         THEN /\ \E o \in ReadOutputs : output' = o
              /\ Continue
         ELSE /\ Exit("readfail", 1)
              /\ UNCHANGED output
    /\ UNCHANGED <<host, eeprom, intf, vdr_id, dev_id, val, val_bin, new_val,
                   magic, cmd, sysStatus, wrote, history>>

\* lines 52-53: the last token of the last line, then int(val, 16).  IndexError
\* and ValueError are not caught: traceback and exit status 1.
ParseOutput ==
    /\ pc = "parse"
    /\ LET t == LastToken(output)
           n == ParseHex(t.tok)
       IN  IF ~t.ok
           THEN /\ Exit("parsefail", 1)
                /\ UNCHANGED <<val, val_bin>>
           ELSE IF ~n.ok
           THEN /\ val' = t.tok
                /\ Exit("parsefail", 1)
                /\ UNCHANGED val_bin
           ELSE /\ val' = t.tok
                /\ val_bin' = n.value
                /\ Continue
    /\ UNCHANGED <<host, eeprom, intf, vdr_id, dev_id, output, new_val,
                   magic, cmd, sysStatus, calls, wrote, history>>

\* lines 55-62: exit(1) when bit 0 is set; new_val when it is clear.  Were
\* neither test true, new_val would be unbound and line 65 would raise
\* NameError before any invocation: traceback and exit status 1.
Decide ==
    /\ pc = "decide"
    /\ IF IsUnlocked(val_bin)
       THEN /\ Exit("unlocked", 1)
            /\ UNCHANGED new_val
       ELSE IF IsLocked(val_bin)
       THEN /\ new_val' = PatchValue(val_bin)
            /\ Continue
       ELSE /\ Exit("nameerror", 1)
            /\ UNCHANGED new_val
    /\ UNCHANGED <<host, eeprom, intf, vdr_id, dev_id, output, val, val_bin,
                   magic, cmd, sysStatus, calls, wrote, history>>

\* lines 64-68: build the magic token and the command line, run it through the
\* shell, drop the status.  The accessor either stores the value (it must be a
\* byte) and exits 0, or refuses and leaves the EEPROM alone; os.system
\* returns the wait status, exit code 1 being 256.
WriteEeprom ==
    /\ pc = "write"
    /\ magic' = MagicToken(dev_id, vdr_id)
    /\ cmd' = WriteCommand(intf, magic', new_val)
    /\ calls' = Append(calls, ShellWords(cmd'))
    /\ \E accepted \in BOOLEAN :
         LET argv == ShellWords(cmd')
             v    == ParseHex(argv[9])
         IN  IF accepted /\ v.ok /\ v.value \in Byte
             THEN /\ eeprom' = v.value
                  /\ sysStatus' = 0
                  /\ wrote' = wrote + 1
                  /\ mutations' = mutations + 1
             ELSE /\ sysStatus' = 256
                  /\ UNCHANGED <<eeprom, wrote, mutations>>
    /\ Continue
    /\ UNCHANGED <<host, intf, vdr_id, dev_id, output, val, val_bin, new_val,
                   eeprom0, run>>

\* line 69 and the end of the script: the interpreter exits with status 0
Report ==
    /\ pc = "report"
    /\ Exit("patched", 0)
    /\ UNCHANGED <<host, eeprom, intf, vdr_id, dev_id, output, val, val_bin,
                   new_val, magic, cmd, sysStatus, calls, wrote, history>>

\* the operator starts the script again, against the same card
NextRun ==
    /\ pc = "done"
    /\ run < MaxRuns
    /\ pc' = "argv"
    /\ intf' = <<>> /\ vdr_id' = <<>> /\ dev_id' = <<>>
    /\ output' = <<>> /\ val' = <<>> /\ val_bin' = 0 /\ new_val' = 0
    /\ magic' = <<>> /\ cmd' = <<>>
    /\ sysStatus' = 0 /\ exitStatus' = 0 /\ outcome' = "running"
    /\ calls' = <<>>
    /\ eeprom0' = eeprom /\ wrote' = 0 /\ run' = run + 1
    /\ UNCHANGED <<host, eeprom, mutations>>

Next ==
    \/ ParseArgs
    \/ ReadIdentity
    \/ Recognize
    \/ ReadEeprom
    \/ ParseOutput
    \/ Decide
    \/ WriteEeprom
    \/ Report
    \/ NextRun

Spec == Init /\ [][Next]_vars

(***************************************************************************)
(* Vocabulary of the properties.                                           *)
(***************************************************************************)
\* positions in calls of the read-mode and of the write-mode invocations
ReadCalls == {i \in 1..Len(calls) : calls[i][2] = S_read}
WriteCalls == {i \in 1..Len(calls) : calls[i][2] = S_write}

\* the run has read both identity files
IdentityRead ==
    pc \notin {"argv", "identity"} /\ outcome \notin {"usage", "ioerror"}

\* the run has parsed a value out of the read-mode output: val_bin is assigned
Parsed ==
    \/ pc \in {"decide", "write", "report"}
    \/ pc = "done" /\ outcome \in {"unlocked", "nameerror", "patched"}

\* the allow-list as the specification states it
AllowList == {<<S_0x8086, S_0x10fb>>, <<S_0x8086, S_0x154d>>}

\* the run has read the identity of a card that is on the allow-list
OnAllowList == IdentityRead /\ <<vdr_id, dev_id>> \in AllowList

\* Scenario A: vendor "0x8086", device "0x10fb", read byte 0x00, run finished
ScenarioA ==
    /\ pc = "done" /\ Parsed
    /\ vdr_id = S_0x8086 /\ dev_id = S_0x10fb
    /\ val_bin = 0

(***************************************************************************)
(* Properties.                                                             *)
(***************************************************************************)
\* C1: a failure of the write-mode invocation is propagated: a finished run
\* whose write command returned a non-zero status has a non-zero exit status,
\* and exit status 0 comes only from a run whose write command succeeded.
\* Stated for the runs against a card of the allow-list whose accessor keeps
\* to the dump format: the claim's plainest case.
C1_WriteFailurePropagated ==
    (pc = "done" /\ OnAllowList /\ conforming) =>
        /\ (WriteCalls # {} /\ sysStatus # 0) => exitStatus # 0
        /\ exitStatus = 0 => (WriteCalls # {} /\ sysStatus = 0)

\* C2: exit codes are distinct per outcome: a run ends with status 1 iff the
\* byte read had bit 0 set, and a run whose read-mode invocation failed or
\* whose output could not be parsed never ends with status 1, 2, 3 or 255.
\* Stated for the runs against a card of the allow-list.
C2_ExitCodesDistinct ==
    (pc = "done" /\ OnAllowList) =>
        /\ exitStatus = 1 <=> (Parsed /\ val_bin % 2 = 1)
        /\ outcome \in {"readfail", "parsefail"}
               => exitStatus \notin {1, 2, 3, 255}

\* C3: the recognizer accepts exactly the two pairs of the allow-list: a run
\* gets past recognition iff its (vendor, device) pair is one of them, and
\* ends with exit status 3 otherwise.
C3_RecognizerExact ==
    (IdentityRead /\ pc # "recognize") =>
        /\ outcome # "unrecognized" <=> <<vdr_id, dev_id>> \in AllowList
        /\ outcome = "unrecognized" => (pc = "done" /\ exitStatus = 3)

\* C4 as stated: in scenario A the write-mode invocation carries the magic
\* "10fb8086" (no "0x" prefix) and the value 0x01, and the run exits 0.
C4_MagicWithoutPrefix ==
    ScenarioA =>
        /\ WriteCalls = {2}
        /\ calls[2][4] = S_magic
        /\ calls[2][5] = <<"1", "0", "f", "b", "8", "0", "8", "6">>
        /\ ParseHex(calls[2][9]) = [ok |-> TRUE, value |-> 1]
        /\ exitStatus = 0

\* C4 as amended: in scenario A the write-mode invocation carries the magic
\* "0x10fb8086", the device id as read followed by the vendor id without its
\* first two characters, and the value 0x1, and the run exits 0.
C4_MagicToken ==
    ScenarioA =>
        /\ WriteCalls = {2}
        /\ calls[2][4] = S_magic
        /\ calls[2][5] = <<"0", "x", "1", "0", "f", "b", "8", "0", "8", "6">>
        /\ calls[2][8] = S_value
        /\ calls[2][9] = <<"0", "x", "1">>
        /\ ParseHex(calls[2][9]) = [ok |-> TRUE, value |-> 1]
        /\ exitStatus = 0

C4_Witness ==
    ScenarioA /\ outcome = "patched" /\ Len(calls) = 2

\* C5: when the byte b read has bit 0 clear, the value handed to the
\* write-mode invocation has bit 0 set and bits 1-7 equal to those of b, and
\* the write targets offset 0x58 with length 1.
C5_PatchSetsOnlyBit0 ==
    \A i \in WriteCalls :
        (val_bin \in Byte /\ val_bin % 2 = 0) =>
            LET v == ParseHex(calls[i][9])
            IN  /\ v.ok
                /\ v.value % 2 = 1
                /\ v.value \div 2 = val_bin \div 2
                /\ calls[i][6] = S_offset /\ calls[i][7] = S_0x58
                /\ calls[i][8] = S_value
                /\ calls[i][10] = S_length /\ calls[i][11] = S_1

C5_Witness ==
    /\ WriteCalls # {}
    /\ val_bin = 254
    /\ ParseHex(calls[2][9]).value = 255

\* C6: the decision is AlreadyUnlocked iff bit 0 of the byte read is set; such
\* a run invokes no write and leaves the EEPROM byte as it was; and with an
\* accessor that reports the byte, a run that follows a successful patch
\* writes nothing, so the byte changes at most once over the sequence of runs.
C6_Idempotent ==
    /\ (pc = "done" /\ Parsed) => (outcome = "unlocked" <=> val_bin % 2 = 1)
    /\ (Parsed /\ val_bin % 2 = 1) => (WriteCalls = {} /\ eeprom = eeprom0)
    /\ conforming =>
           /\ mutations <= 1
           /\ mutations - wrote >= 1 => (WriteCalls = {} /\ eeprom = eeprom0)

C6_Witness ==
    /\ conforming /\ run = 2 /\ mutations = 1 /\ wrote = 0
    /\ pc = "done" /\ outcome = "unlocked"
    /\ eeprom0 % 2 = 1

\* C7: a device that is not on the allow-list makes the run end with exit
\* status 3 without any invocation of the accessor, read or write.
C7_UnrecognizedNeverTouchesEeprom ==
    (pc = "done" /\ IdentityRead /\ <<vdr_id, dev_id>> \notin AllowList) =>
        (exitStatus = 3 /\ calls = <<>>)

\* C8: no retry: a run invokes the accessor at most once in read mode and at
\* most once in write mode, the read before the write, and changes the EEPROM
\* byte at most once.
C8_NoRetry ==
    /\ Cardinality(ReadCalls) <= 1
    /\ Cardinality(WriteCalls) <= 1
    /\ \A i \in WriteCalls : \E j \in ReadCalls : j < i
    /\ wrote <= 1
    /\ eeprom # eeprom0 => wrote = 1

C8_Witness ==
    /\ pc = "done" /\ wrote = 1
    /\ ReadCalls = {1} /\ WriteCalls = {2}

\* C9: every error aborts before any mutation: a run that ends through the
\* missing argument (255), the identity read failure (2), the unrecognized
\* device (3), a failed read-mode invocation or unparsable read output has
\* invoked no write and leaves the EEPROM byte as it was.
C9_ErrorsAbortBeforeMutation ==
    (pc = "done"
       /\ outcome \in {"usage", "ioerror", "unrecognized",
                       "readfail", "parsefail"}) =>
        /\ WriteCalls = {}
        /\ wrote = 0 /\ eeprom = eeprom0
        /\ outcome = "usage" => exitStatus = 255
        /\ outcome = "ioerror" => exitStatus = 2
        /\ outcome = "unrecognized" => exitStatus = 3

C9_Witness ==
    /\ pc = "done" /\ outcome = "parsefail"
    /\ output = <<>> /\ Len(calls) = 1
    /\ eeprom = eeprom0

\* C10: the value handed to the write-mode invocation is always one unsigned
\* 8-bit value, and read output whose last token does not denote a byte never
\* leads to a write.  Stated for the runs against a card of the allow-list.
C10_WriteValueIsByte ==
    OnAllowList =>
        /\ \A i \in WriteCalls :
               LET v == ParseHex(calls[i][9]) IN v.ok /\ v.value \in Byte
        /\ (Parsed /\ val_bin \notin Byte) => WriteCalls = {}

=============================================================================
